---- MODULE Spec2Model ----
(***************************************************************************)
(* Toisto: the quiz scheduler (toisto.model.quiz.progress.Progress) over   *)
(* the concept graph (toisto.model.language.concept.Concept).              *)
(*                                                                         *)
(* An optional value (Python's `x | None`) is a set with at most one       *)
(* element: None is the empty set, Some(x) is {x}.  A datetime is a number *)
(* of clock ticks.  A tuple is a sequence, a Python set is a set.          *)
(***************************************************************************)
EXTENDS Integers, Sequences, FiniteSets, TLC

VARIABLES
    quizzes,          \* Progress.__topics.quizzes: the quiz universe
    skip_concepts,    \* maxlen of Progress.__recent_concepts
    progress_dict,    \* Progress.__progress_dict: quiz key -> Retention
    recent_concepts,  \* Progress.__recent_concepts: deque of base concepts
    now,              \* the wall clock read by Retention (datetime.now())
    returned,         \* the value returned by the latest next_quiz() call
    practice,         \* where the practice loop is: asking, answering or done
    registry,         \* Concept.instances: concept id -> Concept
    capitonyms,       \* Concept.capitonyms: lower case label -> concepts
    homographs,       \* Concept.homographs: label -> concepts
    query             \* the latest call on the concept graph, with its result

vars ==
    <<quizzes, skip_concepts, progress_dict, recent_concepts, now, returned, practice,
      registry, capitonyms, homographs, query>>

\* The variables of the concept graph and those of the scheduler.
concept_vars == <<registry, capitonyms, homographs, query>>
progress_vars == <<quizzes, skip_concepts, progress_dict, recent_concepts, now, returned>>

None == {}
Some(x) == {x}

\* A call returns a value or raises an exception.
Return(value) == [raises |-> "", value |-> value]
Raise(exception) == [raises |-> exception]

\* No call on the concept graph yet.
NoCall == [method |-> "", self |-> "", args |-> <<>>, result |-> Return(None)]

(***************************************************************************)
(* Bounds of the model.                                                    *)
(***************************************************************************)
MaxTime == 1          \* the clock runs from 0 to MaxTime
MaxCount == 2         \* increase_retention is not called beyond this count
MaxPersisted == 1     \* number of entries in the persisted mapping loaded
recursionlimit == 6   \* nested calls of one method before RecursionError

(***************************************************************************)
(* The concept graph.  A concept keeps the ids of its parent, constituents,*)
(* related concepts and roots, and looks the concepts up in the registry   *)
(* (Concept.instances) only when asked.  The registry is passed to every   *)
(* method as registry_.  A method that calls itself, directly or through   *)
(* other concepts, is given the depth of the call; an unbounded recursion  *)
(* ends in Python's RecursionError.                                        *)
(***************************************************************************)
Range(s) == {s[i] : i \in DOMAIN s}

RECURSIVE Chain(_)
Chain(seqs) == IF seqs = <<>> THEN <<>> ELSE Head(seqs) \o Chain(Tail(seqs))

\* The outcome of a generator over calls: the first exception raised, else the
\* values returned.
raised(results) == \E i \in DOMAIN results : results[i].raises # ""
first_raised(results) ==
    results[CHOOSE i \in DOMAIN results :
                /\ results[i].raises # ""
                /\ \A j \in DOMAIN results : results[j].raises # "" => i <= j]
values(results) == [i \in DOMAIN results |-> results[i].value]

\* The concept ids, in the order in which concepts are registered.
all_concept_ids ==
    << "key", "board", "keyboard",
       "dog", "canine", "animal",
       "word", "noun", "table", "table/singular", "table/plural",
       "eat", "eat/first person/masculine", "eat/third person",
       "eat/third person/feminine" >>

\* Registry: the items by key.  A key that is not registered has no values.
Registry_add_item(registry_, k, item) == registry_ @@ (k :> item)

Registry_get_values(registry_, keys) ==
    LET registered == SelectSeq(keys, LAMBDA k : k \in DOMAIN registry_)
    IN  [i \in DOMAIN registered |-> registry_[registered[i]]]

Registry_get_all_values(registry_) == Registry_get_values(registry_, all_concept_ids)

\* The homonym registries keep the concepts by the key of a label.
HomonymRegistry_add_item(registry_, k, item) ==
    IF k \in DOMAIN registry_ THEN [registry_ EXCEPT ![k] = Append(@, item)]
    ELSE registry_ @@ (k :> <<item>>)

\* Labels.  The value of a label is its text split at the note separator.
Label(language, value) == [language |-> language, value |-> value]
without_notes(label) == label.value[1]
\* A str that is not a Label has no language.
plain_str(value) == [value |-> value]
isinstance_Label(object) == "language" \in DOMAIN object

\* Mutant of __eq__: the notes are compared too.
Label_eq_with_notes(self, other) ==
    IF isinstance_Label(other)
    THEN self.language = other.language /\ self.value = other.value
    ELSE FALSE

Label_eq(self, other) ==
    IF isinstance_Label(other)
    THEN self.language = other.language /\ without_notes(self) = without_notes(other)
    ELSE FALSE

Label_ne(self, other) ==
    IF isinstance_Label(other)
    THEN self.language # other.language \/ without_notes(self) # without_notes(other)
    ELSE TRUE

lower_case(text) ==
    CASE text = "Table" -> "table"
      [] text = "Word" -> "word"
      [] OTHER -> text
with_language(labels_, language) ==
    SelectSeq(labels_, LAMBDA label : label.language = language)
\* any(labels): a label is a str, and true unless it is the empty string.
any(labels_) == \E i \in DOMAIN labels_ : labels_[i].value # <<"">>

\* The relations between concepts.
InvertedConceptRelation == {"hyponym", "involved_by", "meronym"}
RecursiveConceptRelation == {"holonym", "hypernym", "involves"}
NonInvertedConceptRelation == RecursiveConceptRelation \union {"antonym", "answer", "example"}
ConceptRelation == InvertedConceptRelation \union NonInvertedConceptRelation

inverted(relation) ==
    CASE relation = "hyponym" -> "hypernym"
      [] relation = "involved_by" -> "involves"
      [] relation = "meronym" -> "holonym"

TupleRoots(ids) == [is_dict |-> FALSE, tuple |-> ids, dict |-> <<>>]
DictRoots(d) == [is_dict |-> TRUE, tuple |-> <<>>, dict |-> d]

Concept_get_concepts(registry_, concept_ids) == Registry_get_values(registry_, concept_ids)

Concept_get_all_concepts(registry_) == Registry_get_all_values(registry_)

\* Mutant of get_related_concepts: only the concepts declared on the concept
\* itself are returned, also for a recursive relation.
RECURSIVE Concept_get_related_concepts(_, _, _, _, _)
Concept_get_related_concepts_not_recursive(registry_, self, relation, visited_concepts, depth) ==
    IF depth > recursionlimit THEN Raise("RecursionError")
    ELSE IF self \in Range(visited_concepts) THEN Return(<<>>)
    ELSE IF relation \in InvertedConceptRelation
    THEN LET inverted_relation == inverted(relation)
             all_concepts == Concept_get_all_concepts(registry_)
             results ==
                [i \in DOMAIN all_concepts |->
                    Concept_get_related_concepts(registry_, all_concepts[i], inverted_relation,
                                                 <<self>> \o visited_concepts, depth + 1)]
         IN  IF raised(results) THEN first_raised(results)
             ELSE Return(SelectSeq(all_concepts, LAMBDA concept :
                     \E i \in DOMAIN all_concepts :
                        all_concepts[i] = concept /\ self \in Range(results[i].value)))
    ELSE Return(Concept_get_concepts(registry_, self._related_concepts[relation]))

\* Mutant of get_related_concepts: the visited concepts are not looked at.
RECURSIVE Concept_get_related_concepts_without_visited_concepts(_, _, _, _, _)
Concept_get_related_concepts_without_visited_concepts(registry_, self, relation, visited_concepts, depth) ==
    IF depth > recursionlimit THEN Raise("RecursionError")
    ELSE IF relation \in InvertedConceptRelation
    THEN LET inverted_relation == inverted(relation)
             all_concepts == Concept_get_all_concepts(registry_)
             results ==
                [i \in DOMAIN all_concepts |->
                    Concept_get_related_concepts_without_visited_concepts(
                        registry_, all_concepts[i], inverted_relation,
                        <<self>> \o visited_concepts, depth + 1)]
         IN  IF raised(results) THEN first_raised(results)
             ELSE Return(SelectSeq(all_concepts, LAMBDA concept :
                     \E i \in DOMAIN all_concepts :
                        all_concepts[i] = concept /\ self \in Range(results[i].value)))
    ELSE LET related_concepts == Concept_get_concepts(registry_, self._related_concepts[relation])
         IN  IF relation \notin RecursiveConceptRelation THEN Return(related_concepts)
             ELSE LET results ==
                        [i \in DOMAIN related_concepts |->
                            Concept_get_related_concepts_without_visited_concepts(
                                registry_, related_concepts[i], relation,
                                <<self>> \o visited_concepts, depth + 1)]
                  IN  IF raised(results) THEN first_raised(results)
                      ELSE Return(related_concepts \o Chain(values(results)))

Concept_get_related_concepts(registry_, self, relation, visited_concepts, depth) ==
    IF depth > recursionlimit THEN Raise("RecursionError")
    ELSE IF self \in Range(visited_concepts) THEN Return(<<>>)
    ELSE IF relation \in InvertedConceptRelation
    THEN LET inverted_relation == inverted(relation)
             all_concepts == Concept_get_all_concepts(registry_)
             results ==
                [i \in DOMAIN all_concepts |->
                    Concept_get_related_concepts(registry_, all_concepts[i], inverted_relation,
                                                 <<self>> \o visited_concepts, depth + 1)]
         IN  IF raised(results) THEN first_raised(results)
             ELSE Return(SelectSeq(all_concepts, LAMBDA concept :
                     \E i \in DOMAIN all_concepts :
                        all_concepts[i] = concept /\ self \in Range(results[i].value)))
    ELSE LET related_concepts == Concept_get_concepts(registry_, self._related_concepts[relation])
         IN  IF relation \notin RecursiveConceptRelation THEN Return(related_concepts)
             ELSE LET results ==
                        [i \in DOMAIN related_concepts |->
                            Concept_get_related_concepts(registry_, related_concepts[i], relation,
                                                         <<self>> \o visited_concepts, depth + 1)]
                  IN  IF raised(results) THEN first_raised(results)
                      ELSE Return(related_concepts \o Chain(values(results)))

Concept_parent(registry_, self) ==
    IF self._parent # None
    THEN LET concepts == Concept_get_concepts(registry_, <<CHOOSE p \in self._parent : TRUE>>)
         IN  IF concepts = <<>> THEN Raise("IndexError") ELSE Return(Some(concepts[1]))
    ELSE Return(None)

RECURSIVE Concept_base_concept(_, _, _)
Concept_base_concept(registry_, self, depth) ==
    IF depth > recursionlimit THEN Raise("RecursionError")
    ELSE LET parent_ == Concept_parent(registry_, self)
         IN  IF parent_.raises # "" THEN parent_
             ELSE IF parent_.value # None
             THEN Concept_base_concept(registry_, CHOOSE concept \in parent_.value : TRUE,
                                       depth + 1)
             ELSE Return(self)

\* all(self.base_concept == concept.base_concept for concept in concepts):
\* all() stops at the first concept with another base concept.
RECURSIVE Concept_same_base_concept(_, _, _)
Concept_same_base_concept(registry_, self, concepts) ==
    IF concepts = <<>> THEN Return(TRUE)
    ELSE LET own_base_concept == Concept_base_concept(registry_, self, 1)
             base_concept_ == Concept_base_concept(registry_, Head(concepts), 1)
         IN  IF own_base_concept.raises # "" THEN own_base_concept
             ELSE IF base_concept_.raises # "" THEN base_concept_
             ELSE IF own_base_concept.value # base_concept_.value THEN Return(FALSE)
             ELSE Concept_same_base_concept(registry_, self, Tail(concepts))

\* The grammatical categories, and the order of str on them.
GrammaticalCategory ==
    {"feminine", "first person", "masculine", "plural", "singular", "third person"}
alphabetical ==
    <<"feminine", "first person", "masculine", "plural", "singular", "third person">>
sorted(strings) == SelectSeq(alphabetical, LAMBDA string : string \in strings)

\* concept_id.split("/")
split(concept_id) ==
    CASE concept_id = "eat/first person/masculine" -> <<"eat", "first person", "masculine">>
      [] concept_id = "eat/third person" -> <<"eat", "third person">>
      [] concept_id = "eat/third person/feminine" -> <<"eat", "third person", "feminine">>
      [] concept_id = "table/singular" -> <<"table", "singular">>
      [] concept_id = "table/plural" -> <<"table", "plural">>
      [] OTHER -> <<concept_id>>

Concept_grammatical_categories(self) ==
    SelectSeq(split(self.concept_id), LAMBDA k : k \in GrammaticalCategory)

\* The two loops: index by index, and for each index concept by concept.  A
\* concept that has no category at the index raises IndexError.
Concept_grammatical_differences(self, concepts) ==
    LET grammatical_categories == Concept_grammatical_categories(self)
        grammatical_differences ==
            {grammatical_categories[index] : index \in
                {i \in DOMAIN grammatical_categories :
                    \E c \in DOMAIN concepts :
                        Concept_grammatical_categories(concepts[c])[i]
                            # grammatical_categories[i]}}
    IN  IF \E index \in DOMAIN grammatical_categories : \E c \in DOMAIN concepts :
              index > Len(Concept_grammatical_categories(concepts[c]))
        THEN Raise("IndexError")
        ELSE Return(sorted(grammatical_differences))

Concept_constituents(registry_, self) == Concept_get_concepts(registry_, self._constituents)

\* Mutant of _has_own_labels_or_meanings: the language is not looked at.
Concept_has_own_labels_or_meanings_in_any_language(self, language) ==
    any(self._labels \o self._meanings)

Concept_has_own_labels_or_meanings(self, language) ==
    any(with_language(self._labels \o self._meanings, language))

Concept_own_labels(self, language) ==
    IF Concept_has_own_labels_or_meanings(self, language)
    THEN with_language(self._labels, language) ELSE <<>>

Concept_own_meanings(self, language) ==
    IF Concept_has_own_labels_or_meanings(self, language)
    THEN with_language(self._meanings, language) ELSE <<>>

RECURSIVE Concept_ancestor_labels(_, _, _, _)
Concept_ancestor_labels(registry_, self, language, depth) ==
    IF depth > recursionlimit THEN Raise("RecursionError")
    ELSE LET parent_ == Concept_parent(registry_, self)
         IN  IF parent_.raises # "" THEN parent_
             ELSE IF parent_.value # None
             THEN LET parent_concept == CHOOSE concept \in parent_.value : TRUE
                      own_labels == Concept_own_labels(parent_concept, language)
                  IN  IF own_labels # <<>> THEN Return(own_labels)
                      ELSE Concept_ancestor_labels(registry_, parent_concept, language, depth + 1)
             ELSE Return(<<>>)

RECURSIVE Concept_ancestor_meanings(_, _, _, _)
Concept_ancestor_meanings(registry_, self, language, depth) ==
    IF depth > recursionlimit THEN Raise("RecursionError")
    ELSE LET parent_ == Concept_parent(registry_, self)
         IN  IF parent_.raises # "" THEN parent_
             ELSE IF parent_.value # None
             THEN LET parent_concept == CHOOSE concept \in parent_.value : TRUE
                      own_meanings == Concept_own_meanings(parent_concept, language)
                  IN  IF own_meanings # <<>> THEN Return(own_meanings)
                      ELSE Concept_ancestor_meanings(registry_, parent_concept, language, depth + 1)
             ELSE Return(<<>>)

RECURSIVE Concept_labels(_, _, _, _)
Concepts_labels(registry_, concepts, language, depth) ==
    LET results ==
            [i \in DOMAIN concepts |-> Concept_labels(registry_, concepts[i], language, depth)]
    IN  IF raised(results) THEN first_raised(results) ELSE Return(Chain(values(results)))

Concept_labels(registry_, self, language, depth) ==
    IF depth > recursionlimit THEN Raise("RecursionError")
    ELSE IF Concept_own_labels(self, language) # <<>>
    THEN Return(Concept_own_labels(self, language))
    ELSE LET ancestor_labels == Concept_ancestor_labels(registry_, self, language, 1)
         IN  IF ancestor_labels.raises # "" THEN ancestor_labels
             ELSE IF ancestor_labels.value # <<>> THEN ancestor_labels
             ELSE Concepts_labels(registry_, Concept_constituents(registry_, self), language,
                                  depth + 1)

RECURSIVE Concept_meanings(_, _, _, _)
Concepts_meanings(registry_, concepts, language, depth) ==
    LET results ==
            [i \in DOMAIN concepts |-> Concept_meanings(registry_, concepts[i], language, depth)]
    IN  IF raised(results) THEN first_raised(results) ELSE Return(Chain(values(results)))

Concept_meanings(registry_, self, language, depth) ==
    IF depth > recursionlimit THEN Raise("RecursionError")
    ELSE IF Concept_own_meanings(self, language) # <<>>
    THEN Return(Concept_own_meanings(self, language))
    ELSE LET ancestor_meanings == Concept_ancestor_meanings(registry_, self, language, 1)
         IN  IF ancestor_meanings.raises # "" THEN ancestor_meanings
             ELSE IF ancestor_meanings.value # <<>> THEN ancestor_meanings
             ELSE Concepts_meanings(registry_, Concept_constituents(registry_, self), language,
                                    depth + 1)

Concept_is_composite(registry_, self, language) ==
    IF Concept_has_own_labels_or_meanings(self, language) THEN Return(FALSE)
    ELSE LET ancestor_labels == Concept_ancestor_labels(registry_, self, language, 1)
         IN  IF ancestor_labels.raises # "" THEN ancestor_labels
             ELSE IF ancestor_labels.value # <<>> THEN Return(FALSE)
             ELSE LET ancestor_meanings == Concept_ancestor_meanings(registry_, self, language, 1)
                  IN  IF ancestor_meanings.raises # "" THEN ancestor_meanings
                      ELSE Return(ancestor_meanings.value = <<>>)

RECURSIVE Concept_roots(_, _, _, _)
Concepts_roots(registry_, concepts, language, depth) ==
    LET results ==
            [i \in DOMAIN concepts |-> Concept_roots(registry_, concepts[i], language, depth)]
    IN  IF raised(results) THEN first_raised(results) ELSE Return(Chain(values(results)))

Concept_roots(registry_, self, language, depth) ==
    IF depth > recursionlimit THEN Raise("RecursionError")
    ELSE LET concept_ids_of_roots ==
                IF self._roots.is_dict
                THEN IF language \in DOMAIN self._roots.dict
                     THEN self._roots.dict[language] ELSE <<>>
                ELSE self._roots.tuple
             direct_roots == Concept_get_concepts(registry_, concept_ids_of_roots)
             roots_of_roots == Concepts_roots(registry_, direct_roots, language, depth + 1)
         IN  IF roots_of_roots.raises # "" THEN roots_of_roots
             ELSE Return(direct_roots \o roots_of_roots.value)

Concepts_compounds(registry_, concepts, root, language) ==
    LET results ==
            [i \in DOMAIN concepts |-> Concept_roots(registry_, concepts[i], language, 1)]
    IN  IF raised(results) THEN first_raised(results)
        ELSE Return(SelectSeq(concepts, LAMBDA concept :
                \E i \in DOMAIN concepts :
                    concepts[i] = concept /\ root \in Range(results[i].value)))

Concept_compounds(registry_, self, language) ==
    Concepts_compounds(registry_, Concept_get_all_concepts(registry_), self, language)

(***************************************************************************)
(* The concepts of the scheduler's sessions.  _roots is a tuple when all   *)
(* languages share the roots, else a dict from language to tuple.          *)
(***************************************************************************)

Concept(concept_id, parent, roots_, level) ==
    [concept_id |-> concept_id, _parent |-> parent, _roots |-> roots_, level |-> level]

instances ==
    [id \in {"black", "board", "board/plural", "board/diminutive", "blackboard", "sentence"} |->
        CASE id = "black" -> Concept(id, None, TupleRoots(<<>>), "A2")
          [] id = "board" -> Concept(id, None, TupleRoots(<<>>), "A1")
          [] id = "board/plural" -> Concept(id, Some("board"), TupleRoots(<<>>), "A1")
          [] id = "board/diminutive" ->
                Concept(id, Some("board"), TupleRoots(<<"blackboard">>), "A1")
          [] id = "blackboard" ->
                Concept(id, None, DictRoots("en" :> <<"black", "board">>), "A2")
          [] id = "sentence" -> Concept(id, None, TupleRoots(<<"blackboard">>), "B1")]

get_concepts(concept_ids) == Concept_get_concepts(instances, concept_ids)

parent(concept) == Concept_parent(instances, concept).value

RECURSIVE base_concept(_)
base_concept(concept) ==
    IF parent(concept) # None
    THEN base_concept(CHOOSE p \in parent(concept) : TRUE)
    ELSE concept

roots(concept, language) == Concept_roots(instances, concept, language, 1).value

(***************************************************************************)
(* The language levels: names whose str() is the name itself and whose     *)
(* order is the order of the names.                                        *)
(***************************************************************************)
Levels == <<"A1", "A2", "B1">>
LevelRank(level) == CHOOSE i \in DOMAIN Levels : Levels[i] = level
str(level) == level
StrLess(a, b) == LevelRank(a) < LevelRank(b)

(***************************************************************************)
(* Quizzes.  A quiz is an immutable value; its key for the retention table *)
(* is derived from the concept id, the languages and the quiz types.       *)
(***************************************************************************)
Quiz(concept_id, question_language, answer_language, quiz_types, blocked_by) ==
    [concept |-> concept_id,
     question_language |-> question_language,
     answer_language |-> answer_language,
     quiz_types |-> quiz_types,
     blocked_by |-> blocked_by]

key(quiz) ==
    <<quiz.concept, quiz.question_language, quiz.answer_language, quiz.quiz_types>>

is_blocked_by(quiz, other_quizzes) == \E other \in other_quizzes : other \in quiz.blocked_by

black_read == Quiz("black", "en", "nl", {"read"}, {})
black_write == Quiz("black", "nl", "en", {"write"}, {black_read})
black_dictate == Quiz("black", "en", "en", {"dictate"}, {})
board_read == Quiz("board", "en", "nl", {"read"}, {})
boards_read == Quiz("board/plural", "en", "nl", {"read"}, {})
little_board_read == Quiz("board/diminutive", "en", "nl", {"read"}, {})
blackboard_read == Quiz("blackboard", "en", "nl", {"read"}, {})
sentence_write == Quiz("sentence", "nl", "en", {"write"}, {})

\* The sessions of the model: a quiz universe and the skip_concepts it is
\* scheduled with.
Topics ==
    { [quizzes |-> {black_read, black_write, blackboard_read}, skip_concepts |-> 1],
      [quizzes |-> {black_read, board_read, blackboard_read}, skip_concepts |-> 0],
      [quizzes |-> {black_read, black_dictate, board_read}, skip_concepts |-> 2],
      [quizzes |-> {boards_read, blackboard_read, sentence_write}, skip_concepts |-> 2],
      [quizzes |-> {little_board_read, blackboard_read}, skip_concepts |-> 0] }

(***************************************************************************)
(* Retention: the consecutive-correct count and the silence deadline.      *)
(***************************************************************************)
MaxSilence == 2   \* the cap of the silence duration, in clock ticks
TicksPerDay == 2  \* clock ticks in one calendar day

SilenceDuration(count) == IF count > MaxSilence THEN MaxSilence ELSE count

Retention == [count |-> 0, silence_until |-> None]

Retention_increase(retention) ==
    [count |-> retention.count + 1,
     silence_until |-> Some(now + SilenceDuration(retention.count + 1))]

Retention_reset(retention) == [count |-> 0, silence_until |-> None]

is_silenced(retention) == \E silence_until \in retention.silence_until : now < silence_until

\* An ISO-8601 string is a date with or without a time of day.
IsoDate(date) == [date |-> date]
IsoDateTime(date, time) == [date |-> date, time |-> time]

fromisoformat(string) ==
    string.date * TicksPerDay + (IF "time" \in DOMAIN string THEN string.time ELSE 0)

isoformat(datetime) == IsoDateTime(datetime \div TicksPerDay, datetime % TicksPerDay)

Retention_from_dict(retention_dict) ==
    [count |-> retention_dict.count,
     silence_until |->
        IF "silence_until" \in DOMAIN retention_dict
        THEN Some(fromisoformat(retention_dict.silence_until))
        ELSE None]

Retention_as_dict(retention) ==
    IF retention.silence_until = None
    THEN [count |-> retention.count]
    ELSE [count |-> retention.count,
          silence_until |-> isoformat(CHOOSE t \in retention.silence_until : TRUE)]

(***************************************************************************)
(* Progress.                                                               *)
(***************************************************************************)
concept_of(quiz) == instances[quiz.concept]

\* Concept.base_concept is a cached property: one value per concept.
base_concepts == [id \in DOMAIN instances |-> base_concept(instances[id])]

Progress_init(progress_dict_in) ==
    [k \in DOMAIN progress_dict_in |-> Retention_from_dict(progress_dict_in[k])]

\* Mutant of as_dict: the entries with a count of 0 are left out.
as_dict_without_zero_counts(progress_dict_) ==
    [k \in {k \in DOMAIN progress_dict_ : progress_dict_[k].count # 0} |->
        Retention_as_dict(progress_dict_[k])]

as_dict(progress_dict_) ==
    [k \in DOMAIN progress_dict_ |-> Retention_as_dict(progress_dict_[k])]

quizzes_by_concept ==
    [concept \in {base_concepts[quiz.concept] : quiz \in quizzes} |->
        {quiz \in quizzes : base_concepts[quiz.concept] = concept}]

\* Mutant of get_retention: the table is subscripted, progress_dict[quiz.key],
\* which raises KeyError for a key without entry.
Progress_get_retention_subscript(progress_dict_, quiz) ==
    IF key(quiz) \in DOMAIN progress_dict_ THEN progress_dict_[key(quiz)]
    ELSE [raised |-> "KeyError"]

Progress_get_retention(progress_dict_, quiz) ==
    IF key(quiz) \in DOMAIN progress_dict_ THEN progress_dict_[key(quiz)] ELSE Retention

get_retention(quiz) == Progress_get_retention(progress_dict, quiz)

\* Mutants of is_eligible: the recent concepts are not looked at; the silencing
\* is not looked at.
is_eligible_without_recent_concepts(quiz) == ~is_silenced(get_retention(quiz))

is_eligible_without_silencing(quiz) ==
    base_concepts[quiz.concept] \notin Range(recent_concepts)

is_eligible(quiz) ==
    /\ base_concepts[quiz.concept] \notin Range(recent_concepts)
    /\ ~is_silenced(get_retention(quiz))

\* Mutant of in_progress: an entry with a count of 0 does not count.
in_progress_with_count_only(quiz) ==
    key(quiz) \in DOMAIN progress_dict /\ progress_dict[key(quiz)].count > 0

in_progress(quiz) == key(quiz) \in DOMAIN progress_dict

\* Mutant of has_concept_in_progress: the other quizzes of the concept are not
\* looked at.
has_concept_in_progress_own_quiz_only(quiz) == in_progress(quiz)

has_concept_in_progress(quiz) ==
    LET quizzes_for_same_concept == quizzes_by_concept[base_concepts[quiz.concept]]
    IN  \E quiz_for_same_concept \in quizzes_for_same_concept :
            in_progress(quiz_for_same_concept)

target_language(quiz) ==
    IF "write" \in quiz.quiz_types THEN quiz.answer_language ELSE quiz.question_language

\* Mutant of root_concepts_have_quizzes: the quizzes of the roots are looked
\* for in the quiz universe, not in the quizzes given.
root_concepts_have_quizzes_in_universe(quiz, quizzes_) ==
    LET roots_ == roots(concept_of(quiz), target_language(quiz))
    IN  \E i \in DOMAIN roots_ :
            LET root_base == base_concepts[roots_[i].concept_id]
                other_quizzes ==
                    IF root_base \in DOMAIN quizzes_by_concept
                    THEN quizzes_by_concept[root_base] ELSE {}
            IN  \E other_quiz \in other_quizzes : other_quiz # quiz

root_concepts_have_quizzes(quiz, quizzes_) ==
    LET roots_ == roots(concept_of(quiz), target_language(quiz))
    IN  \E i \in DOMAIN roots_ :
            LET root_base == base_concepts[roots_[i].concept_id]
                other_quizzes ==
                    IF root_base \in DOMAIN quizzes_by_concept
                    THEN quizzes_by_concept[root_base] ELSE {}
            IN  \E other_quiz \in other_quizzes :
                    other_quiz # quiz /\ other_quiz \in quizzes_

\* Mutant of unblocked_quizzes: the roots do not block.
unblocked_quizzes_without_roots(quizzes_, eligible_quizzes) ==
    {quiz \in quizzes_ : ~is_blocked_by(quiz, eligible_quizzes)}

\* Mutant of unblocked_quizzes: blocked_by is not looked at.
unblocked_quizzes_without_blocked_by(quizzes_, eligible_quizzes) ==
    {quiz \in quizzes_ : ~root_concepts_have_quizzes(quiz, eligible_quizzes)}

unblocked_quizzes(quizzes_, eligible_quizzes) ==
    {quiz \in quizzes_ :
        /\ ~root_concepts_have_quizzes(quiz, eligible_quizzes)
        /\ ~is_blocked_by(quiz, eligible_quizzes)}

\* Mutant of sort_by_language_level: sorted in descending order.
sort_by_language_level_reversed(quizzes_) ==
    {list \in [1..Cardinality(quizzes_) -> quizzes_] :
        /\ Range(list) = quizzes_
        /\ \A i, j \in DOMAIN list :
              i < j => ~StrLess(str(concept_of(list[i]).level), str(concept_of(list[j]).level))}

\* sorted() is stable and a set has no order of its own: every list that holds
\* the quizzes once each, in non-descending order of the key, can come out.
sort_by_language_level(quizzes_) ==
    {list \in [1..Cardinality(quizzes_) -> quizzes_] :
        /\ Range(list) = quizzes_
        /\ \A i, j \in DOMAIN list :
              i < j => ~StrLess(str(concept_of(list[j]).level), str(concept_of(list[i]).level))}

\* Mutant of deque_append: a full deque drops the new item and keeps the oldest.
deque_append_keeping_oldest(deque, maxlen, item) ==
    IF Len(deque) >= maxlen THEN deque ELSE Append(deque, item)

deque_append(deque, maxlen, item) ==
    IF maxlen = 0 THEN deque
    ELSE IF Len(deque) = maxlen THEN Append(Tail(deque), item)
    ELSE Append(deque, item)

eligible_quizzes == {quiz \in quizzes : is_eligible(quiz)}

\* Mutant of first_unblocked_quizzes: the full eligible set is not tried.
first_unblocked_quizzes_without_last_list ==
    LET eligible == {quiz \in quizzes : is_eligible(quiz)}
        for_concepts == {quiz \in eligible : has_concept_in_progress(quiz)}
        in_progress_ == {quiz \in for_concepts : in_progress(quiz)}
        unblocked1 == unblocked_quizzes(in_progress_, eligible)
        unblocked2 == unblocked_quizzes(for_concepts, eligible)
    IN  IF unblocked1 # {} THEN unblocked1 ELSE unblocked2

\* Mutant of first_unblocked_quizzes: when no eligible quiz is unblocked, the
\* quizzes of the universe are taken.
first_unblocked_quizzes_or_any_quiz ==
    LET eligible == {quiz \in quizzes : is_eligible(quiz)}
        for_concepts == {quiz \in eligible : has_concept_in_progress(quiz)}
        in_progress_ == {quiz \in for_concepts : in_progress(quiz)}
        unblocked1 == unblocked_quizzes(in_progress_, eligible)
        unblocked2 == unblocked_quizzes(for_concepts, eligible)
        unblocked3 == unblocked_quizzes(eligible, eligible)
    IN  IF unblocked1 # {} THEN unblocked1
        ELSE IF unblocked2 # {} THEN unblocked2
        ELSE IF unblocked3 # {} THEN unblocked3
        ELSE quizzes

\* The for loop over the three lists of potential quizzes: the unblocked quizzes
\* of the first list that has any, or no quizzes.
first_unblocked_quizzes ==
    LET eligible == eligible_quizzes
        for_concepts == {quiz \in eligible : has_concept_in_progress(quiz)}
        in_progress_ == {quiz \in for_concepts : in_progress(quiz)}
        unblocked1 == unblocked_quizzes(in_progress_, eligible)
        unblocked2 == unblocked_quizzes(for_concepts, eligible)
        unblocked3 == unblocked_quizzes(eligible, eligible)
    IN  IF unblocked1 # {} THEN unblocked1
        ELSE IF unblocked2 # {} THEN unblocked2
        ELSE unblocked3

\* What next_quiz can return: the head of a sorted list, or None.
next_quiz_returns ==
    LET unblocked == first_unblocked_quizzes
    IN  IF unblocked # {}
        THEN {Some(list[1]) : list \in sort_by_language_level(unblocked)}
        ELSE {None}

next_quiz ==
    /\ \E quiz \in next_quiz_returns :
          /\ returned' = quiz
          /\ recent_concepts' =
                IF quiz = None THEN recent_concepts
                ELSE deque_append(recent_concepts, skip_concepts,
                                  base_concepts[(CHOOSE q \in quiz : TRUE).concept])
    /\ UNCHANGED <<quizzes, skip_concepts, progress_dict, now>>

\* Mutant of setdefault: the mapping returned has the one key only.
setdefault_one_key(dict, k, default) == (k :> IF k \in DOMAIN dict THEN dict[k] ELSE default)

setdefault(dict, k, default) == IF k \in DOMAIN dict THEN dict ELSE dict @@ (k :> default)

\* Mutant of increase_retention: reset() is called on the entry.
increase_retention_resetting(quiz) ==
    /\ get_retention(quiz).count < MaxCount
    /\ progress_dict' =
          [setdefault(progress_dict, key(quiz), Retention) EXCEPT
              ![key(quiz)] = Retention_reset(@)]
    /\ UNCHANGED <<quizzes, skip_concepts, recent_concepts, now, returned>>

increase_retention(quiz) ==
    /\ get_retention(quiz).count < MaxCount
    /\ progress_dict' =
          [setdefault(progress_dict, key(quiz), Retention) EXCEPT
              ![key(quiz)] = Retention_increase(@)]
    /\ UNCHANGED <<quizzes, skip_concepts, recent_concepts, now, returned>>

\* Mutant of reset_retention: increase() is called on the entry.
reset_retention_increasing(quiz) ==
    /\ progress_dict' =
          [setdefault(progress_dict, key(quiz), Retention) EXCEPT
              ![key(quiz)] = Retention_increase(@)]
    /\ UNCHANGED <<quizzes, skip_concepts, recent_concepts, now, returned>>

reset_retention(quiz) ==
    /\ progress_dict' =
          [setdefault(progress_dict, key(quiz), Retention) EXCEPT
              ![key(quiz)] = Retention_reset(@)]
    /\ UNCHANGED <<quizzes, skip_concepts, recent_concepts, now, returned>>

\* Time passes between two calls.
Tick ==
    /\ now < MaxTime
    /\ now' = now + 1
    /\ UNCHANGED <<quizzes, skip_concepts, progress_dict, recent_concepts, returned>>

(***************************************************************************)
(* The persisted mappings a session starts from: what as_dict() of an      *)
(* earlier session wrote at time 0 or before, or the same by hand, with a  *)
(* timestamp given as a date only (as in test_save_progress).              *)
(***************************************************************************)
PersistedRetentions ==
    { [count |-> 0],
      [count |-> 1, silence_until |-> IsoDateTime(0, 1)],
      [count |-> 2, silence_until |-> IsoDate(1)] }

PersistedMappings(universe) ==
    UNION { [keys -> PersistedRetentions] :
              keys \in {ks \in SUBSET {key(quiz) : quiz \in universe} :
                            Cardinality(ks) <= MaxPersisted} }

Progress_Init ==
    /\ \E topics \in Topics :
          /\ quizzes = topics.quizzes
          /\ skip_concepts = topics.skip_concepts
    /\ \E progress_dict_in \in PersistedMappings(quizzes) :
          progress_dict = Progress_init(progress_dict_in)
    /\ recent_concepts = <<>>
    /\ now = 0
    /\ returned = None

\* The scheduler works on a loaded concept graph, on which no call is modelled
\* here, and outside a practice loop.
Init ==
    /\ Progress_Init
    /\ practice = "not started"
    /\ registry = instances
    /\ capitonyms = <<>>
    /\ homographs = <<>>
    /\ query = NoCall

Next ==
    \/ next_quiz /\ UNCHANGED <<practice, concept_vars>>
    \/ \E quiz \in quizzes : increase_retention(quiz) /\ UNCHANGED <<practice, concept_vars>>
    \/ \E quiz \in quizzes : reset_retention(quiz) /\ UNCHANGED <<practice, concept_vars>>
    \/ Tick /\ UNCHANGED <<practice, concept_vars>>

Spec == Init /\ [][Next]_vars

(***************************************************************************)
(* The practice loop (toisto.command.practice): the next quiz is asked and *)
(* answered until next_quiz returns no quiz; then the session is reported  *)
(* as done.  Here every answer is correct, and the clock moves only as     *)
(* long as no silence_until is reached.                                    *)
(***************************************************************************)
practice_next_quiz ==
    /\ practice = "asking"
    /\ next_quiz
    /\ practice' = IF returned' = None THEN "done" ELSE "answering"
    /\ UNCHANGED concept_vars

practice_correct_answer ==
    /\ practice = "answering"
    /\ \E quiz \in returned : increase_retention(quiz)
    /\ practice' = "asking"
    /\ UNCHANGED concept_vars

practice_Tick ==
    /\ practice \in {"asking", "answering"}
    /\ \A k \in DOMAIN progress_dict :
          \A silence_until \in progress_dict[k].silence_until : now + 1 < silence_until
    /\ Tick
    /\ UNCHANGED <<practice, concept_vars>>

Practice_Init ==
    /\ Progress_Init
    /\ practice = "asking"
    /\ registry = instances
    /\ capitonyms = <<>>
    /\ homographs = <<>>
    /\ query = NoCall

Practice_Next ==
    \/ practice_next_quiz
    \/ practice_correct_answer
    \/ practice_Tick

\* next_quiz() always returns, a quiz or None: asking for the next quiz is
\* enabled exactly when the loop is at that step.
practice_next_quiz_enabled == practice = "asking"

\* The loop is one sequential control flow that does not stop by itself: a
\* step of the loop that can be taken is taken.  This is weak fairness of the
\* two steps; for practice_next_quiz it is written out,
\* []<>~ENABLED <<A>>_vars \/ []<><<A>>_vars, with practice_next_quiz_enabled
\* as the enabling condition.
PracticeSpec ==
    /\ Practice_Init
    /\ [][Practice_Next]_vars
    /\ ([]<>~practice_next_quiz_enabled \/ []<><<practice_next_quiz>>_vars)
    /\ WF_vars(practice_correct_answer)

(***************************************************************************)
(* Loading concepts and asking the concept graph.  Concepts are made from  *)
(* the definitions of one concept file, in the order of the file, and a    *)
(* registered concept can be asked at any time, also before the concepts   *)
(* it refers to are registered.                                            *)
(***************************************************************************)
Languages == {"en", "nl"}

Concept_init(concept_id, parent_, constituents_, labels_, meanings_, related_concepts_, roots_, answer_only) ==
    [concept_id |-> concept_id,
     _parent |-> parent_,
     _constituents |-> constituents_,
     _labels |-> labels_,
     _meanings |-> meanings_,
     _related_concepts |-> related_concepts_,
     _roots |-> roots_,
     answer_only |-> answer_only]

no_related_concepts == [relation \in NonInvertedConceptRelation |-> <<>>]

\* A file of compounds: a concept has no root, one root for all languages or
\* one root for English only; any concept of the file can be the root, the
\* concept itself included.
roots_file == [ids |-> <<"key", "board", "keyboard">>, methods |-> {"roots", "compounds"}]

roots_definitions(concept_id) ==
    {Concept_init(concept_id, None, <<>>, <<>>, <<>>, no_related_concepts, roots_, FALSE) :
        roots_ \in {TupleRoots(<<>>)}
                   \union {TupleRoots(<<root>>) : root \in Range(roots_file.ids)}
                   \union {DictRoots("en" :> <<root>>) : root \in Range(roots_file.ids)}}

\* A file of related concepts: a concept has no related concepts, or one
\* hypernym (any concept of the file, itself included), or the two other
\* concepts as hypernyms, or the next concept of the file as its holonym, as
\* the concept it involves and as its antonym.
relations_file ==
    [ids |-> <<"dog", "canine", "animal">>, methods |-> {"get_related_concepts"}]

next_concept_id(concept_id) ==
    CASE concept_id = "dog" -> "canine"
      [] concept_id = "canine" -> "animal"
      [] concept_id = "animal" -> "dog"

relations_definitions(concept_id) ==
    {Concept_init(concept_id, None, <<>>, <<>>, <<>>, related_concepts_, TupleRoots(<<>>), FALSE) :
        related_concepts_ \in
            {no_related_concepts}
            \union {[no_related_concepts EXCEPT !["hypernym"] = <<hypernym>>] :
                        hypernym \in Range(relations_file.ids)}
            \union {[no_related_concepts EXCEPT !["hypernym"] =
                        SelectSeq(relations_file.ids, LAMBDA other : other # concept_id)]}
            \union {[no_related_concepts EXCEPT
                        !["holonym"] = <<next_concept_id(concept_id)>>,
                        !["involves"] = <<next_concept_id(concept_id)>>,
                        !["antonym"] = <<next_concept_id(concept_id)>>]}}

\* A file of a concept with grammatical forms: "table" may have its two forms
\* as constituents, "noun" as parent and "word" as grandparent; each concept
\* may have a label or a meaning of its own.
labels_file ==
    [ids |-> <<"word", "noun", "table", "table/singular", "table/plural">>,
     methods |-> {"parent", "labels", "meanings", "is_composite"}]

labelled(concept_id, parent_, constituents_, labels_, meanings_) ==
    Concept_init(concept_id, parent_, constituents_, labels_, meanings_, no_related_concepts,
                 TupleRoots(<<>>), FALSE)

labels_definitions(concept_id) ==
    CASE concept_id = "word" ->
            {labelled(concept_id, None, <<>>, <<Label("en", <<"Word">>)>>, <<>>)}
      [] concept_id = "noun" ->
            {labelled(concept_id, parent_, <<>>, own[1], own[2]) :
                parent_ \in {None, Some("word")},
                own \in {<< <<>>, <<>> >>,
                         << <<Label("en", <<"noun">>)>>, <<>> >>,
                         << <<>>, <<Label("en", <<"noun">>)>> >>}}
      [] concept_id = "table" ->
            {labelled(concept_id, parent_, constituents_, own[1], own[2]) :
                parent_ \in {None, Some("noun")},
                constituents_ \in {<<>>, <<"table/singular", "table/plural">>},
                own \in {<< <<>>, <<>> >>,
                         << <<Label("en", <<"Table">>)>>, <<>> >>,
                         << <<>>, <<Label("en", <<"table">>)>> >>,
                         << <<Label("nl", <<"tafel">>)>>, <<>> >>}}
      [] concept_id = "table/singular" ->
            {labelled(concept_id, None, <<>>, <<Label("en", <<"table">>)>>, <<>>)}
      [] concept_id = "table/plural" ->
            {labelled(concept_id, None, <<>>, <<Label("en", <<"tables">>)>>,
                      <<Label("en", <<"more than one table">>)>>)}

\* A file of a verb with its grammatical forms: each form has the verb or the
\* form above it as parent; "eat/first person/masculine" can also be without
\* parent.
grammar_file ==
    [ids |-> <<"eat", "eat/first person/masculine", "eat/third person",
               "eat/third person/feminine">>,
     methods |-> {"base_concept", "same_base_concept", "grammatical_differences"}]

grammar_definitions(concept_id) ==
    {labelled(concept_id, parent_, <<>>, <<>>, <<>>) : parent_ \in
        CASE concept_id = "eat" -> {None}
          [] concept_id = "eat/first person/masculine" -> {None, Some("eat")}
          [] concept_id = "eat/third person" -> {Some("eat")}
          [] concept_id = "eat/third person/feminine" -> {Some("eat/third person")}}

concept_files == {roots_file, relations_file, labels_file, grammar_file}

definitions(concept_id) ==
    IF concept_id \in Range(roots_file.ids) THEN roots_definitions(concept_id)
    ELSE IF concept_id \in Range(relations_file.ids) THEN relations_definitions(concept_id)
    ELSE IF concept_id \in Range(labels_file.ids) THEN labels_definitions(concept_id)
    ELSE grammar_definitions(concept_id)

position(concept_id) == CHOOSE i \in DOMAIN all_concept_ids : all_concept_ids[i] = concept_id

\* The file that the next concept is made from: the file of the concepts
\* registered so far.
being_loaded(file) == DOMAIN registry \subseteq Range(file.ids)

capitonym_key(label) == lower_case(without_notes(label))
homograph_key(label) == without_notes(label)

\* for label in self._labels: registry.add_item(label, self), by the key of the registry.
RECURSIVE add_labels(_, _, _)
add_labels(registry_, keys, item) ==
    IF keys = <<>> THEN registry_
    ELSE add_labels(HomonymRegistry_add_item(registry_, Head(keys), item), Tail(keys), item)

\* Concept(...): the dataclass is made and __post_init__ registers it.
Concept_post_init(self) ==
    /\ self.concept_id \notin DOMAIN registry
    /\ \A concept_id \in DOMAIN registry : position(concept_id) < position(self.concept_id)
    /\ registry' = Registry_add_item(registry, self.concept_id, self)
    /\ capitonyms' = add_labels(capitonyms, [i \in DOMAIN self._labels |-> capitonym_key(self._labels[i])], self)
    /\ homographs' = add_labels(homographs, [i \in DOMAIN self._labels |-> homograph_key(self._labels[i])], self)
    /\ query' = [method |-> "Concept", self |-> self.concept_id, args |-> <<>>,
                 result |-> Return(None)]
    /\ UNCHANGED <<progress_vars, practice>>

\* A call of a method of a registered concept.
called(method, self, args, result) ==
    /\ \E file \in concept_files : being_loaded(file) /\ method \in file.methods
    /\ query' = [method |-> method, self |-> self.concept_id, args |-> args, result |-> result]
    /\ UNCHANGED <<registry, capitonyms, homographs, progress_vars, practice>>

call_get_related_concepts(self, relation) ==
    called("get_related_concepts", self, <<relation>>,
           Concept_get_related_concepts(registry, self, relation, <<>>, 1))

call_parent(self) == called("parent", self, <<>>, Concept_parent(registry, self))

call_labels(self, language) ==
    called("labels", self, <<language>>, Concept_labels(registry, self, language, 1))

call_meanings(self, language) ==
    called("meanings", self, <<language>>, Concept_meanings(registry, self, language, 1))

call_is_composite(self, language) ==
    called("is_composite", self, <<language>>, Concept_is_composite(registry, self, language))

call_roots(self, language) ==
    called("roots", self, <<language>>, Concept_roots(registry, self, language, 1))

call_compounds(self, language) ==
    called("compounds", self, <<language>>, Concept_compounds(registry, self, language))

call_base_concept(self) ==
    called("base_concept", self, <<>>, Concept_base_concept(registry, self, 1))

call_same_base_concept(self, concepts) ==
    called("same_base_concept", self, concepts, Concept_same_base_concept(registry, self, concepts))

call_grammatical_differences(self, concepts) ==
    called("grammatical_differences", self, concepts, Concept_grammatical_differences(self, concepts))

\* The labels and strings that are compared: "hoi" and "hei" in two languages,
\* with a note, with another note and without notes.
texts == {<<"hoi">>, <<"hoi", "note1">>, <<"hoi", "note2">>, <<"hei">>, <<"hei", "note1">>}
some_labels == {Label(language, value) : language \in Languages, value \in texts}

\* label == other and label != other, before the concepts are loaded.
call_Label_eq(self, other) ==
    /\ registry = <<>>
    /\ query' = [method |-> "Label.__eq__", self |-> "", args |-> <<self, other>>,
                 result |-> Return(Label_eq(self, other))]
    /\ UNCHANGED <<registry, capitonyms, homographs, progress_vars, practice>>

call_Label_ne(self, other) ==
    /\ registry = <<>>
    /\ query' = [method |-> "Label.__ne__", self |-> "", args |-> <<self, other>>,
                 result |-> Return(Label_ne(self, other))]
    /\ UNCHANGED <<registry, capitonyms, homographs, progress_vars, practice>>

\* The tuples of registered concepts that a call is given: some concepts of
\* the registry, in the order of the registry.
some_concepts ==
    {Registry_get_values(registry, SelectSeq(all_concept_ids, LAMBDA id : id \in ids)) :
        ids \in SUBSET DOMAIN registry}

Concept_Init ==
    /\ quizzes = {}
    /\ skip_concepts = 0
    /\ progress_dict = <<>>
    /\ recent_concepts = <<>>
    /\ now = 0
    /\ returned = None
    /\ practice = "not started"
    /\ registry = <<>>
    /\ capitonyms = <<>>
    /\ homographs = <<>>
    /\ query = NoCall

Concept_Next ==
    \/ \E file \in concept_files : \E concept_id \in Range(file.ids) :
          /\ being_loaded(file)
          /\ \E self \in definitions(concept_id) : Concept_post_init(self)
    \/ \E concept_id \in DOMAIN registry : \E relation \in ConceptRelation :
          call_get_related_concepts(registry[concept_id], relation)
    \/ \E concept_id \in DOMAIN registry : call_parent(registry[concept_id])
    \/ \E concept_id \in DOMAIN registry : call_labels(registry[concept_id], "en")
    \/ \E concept_id \in DOMAIN registry : call_meanings(registry[concept_id], "en")
    \/ \E concept_id \in DOMAIN registry : call_is_composite(registry[concept_id], "en")
    \/ \E concept_id \in DOMAIN registry : \E language \in Languages :
          call_roots(registry[concept_id], language)
    \/ \E concept_id \in DOMAIN registry : \E language \in Languages :
          call_compounds(registry[concept_id], language)
    \/ \E concept_id \in DOMAIN registry : call_base_concept(registry[concept_id])
    \/ \E concept_id \in DOMAIN registry : \E concepts \in some_concepts :
          call_same_base_concept(registry[concept_id], concepts)
    \/ \E concept_id \in DOMAIN registry : \E concepts \in some_concepts :
          call_grammatical_differences(registry[concept_id], concepts)
    \/ \E self \in some_labels : \E other \in some_labels \union {plain_str(value) : value \in texts} :
          call_Label_eq(self, other)
    \/ \E self \in some_labels : \E other \in some_labels \union {plain_str(value) : value \in texts} :
          call_Label_ne(self, other)

ConceptSpec == Concept_Init /\ [][Concept_Next]_vars

(***************************************************************************)
(* Properties of the scheduler.  In a next_quiz step, `returned` is the    *)
(* value the previous next_quiz call returned and returned' the value this *)
(* call returns; the retention table and the clock are those of the call.  *)
(***************************************************************************)
quizzes_of(concept) ==
    IF base_concepts[concept.concept_id] \in DOMAIN quizzes_by_concept
    THEN quizzes_by_concept[base_concepts[concept.concept_id]] ELSE {}

roots_of(quiz) == Range(roots(concept_of(quiz), target_language(quiz)))

in_recent_concepts(concept) == base_concepts[concept.concept_id] \in Range(recent_concepts)

\* C1, as claimed: next_quiz returns no quiz of a compound concept until the
\* quizzes of every one of its root concepts have at least one retention entry.
C1_NotUntilRootsHaveRetention ==
    [][next_quiz =>
        \A quiz \in returned' : \A root \in roots_of(quiz) :
            quizzes_of(root) \ {quiz} # {} =>
                \E other_quiz \in quizzes_of(root) \ {quiz} : in_progress(other_quiz)]_vars

\* C1, amended: next_quiz returns no quiz of a compound concept until every
\* other quiz of each of its root concepts (the roots for the quiz's target
\* language) either has a retention entry that silences it or belongs to a
\* base concept that is in the recent concepts.
C1_NotWhileRootQuizzesCanBeAsked ==
    [][next_quiz =>
        \A quiz \in returned' : \A root \in roots_of(quiz) :
            \A other_quiz \in quizzes_of(root) \ {quiz} :
                \/ in_progress(other_quiz) /\ is_silenced(get_retention(other_quiz))
                \/ in_recent_concepts(root)]_vars

\* C1, witness: a compound's quiz was returned while one quiz of its roots had
\* no retention entry and another quiz of its roots was silenced.
C1_Witness ==
    \E quiz \in returned :
        /\ \E root \in roots_of(quiz) : \E other_quiz \in quizzes_of(root) :
              ~in_progress(other_quiz)
        /\ \E root \in roots_of(quiz) : \E other_quiz \in quizzes_of(root) :
              in_progress(other_quiz) /\ is_silenced(get_retention(other_quiz))

\* C2: with a window of at least one concept, two consecutive next_quiz calls
\* that both return a quiz return quizzes of different base concepts (whatever
\* is eligible; the premise of two eligible quizzes of distinct base concepts
\* only makes sure that the second call has a quiz to return).
C2_NoRepeatWindow ==
    [][(next_quiz /\ skip_concepts >= 1) =>
        \A first \in returned : \A second \in returned' :
            base_concepts[first.concept] # base_concepts[second.concept]]_vars

\* C2, witness: two quizzes were returned in a row, of two eligible base
\* concepts, and the second is the one returned last.
C2_Witness ==
    /\ skip_concepts >= 1
    /\ Len(recent_concepts) >= 2
    /\ \E quiz \in returned :
          /\ recent_concepts[Len(recent_concepts)] = base_concepts[quiz.concept]
          /\ recent_concepts[Len(recent_concepts) - 1] # base_concepts[quiz.concept]

all_silenced == \A quiz \in quizzes : is_silenced(get_retention(quiz))

\* C3: next_quiz returns no quiz whose retention is silenced at the time of the
\* call, and returns None when every quiz is silenced.
C3_NeverSilenced ==
    [][next_quiz =>
        /\ \A quiz \in returned' : ~is_silenced(get_retention(quiz))
        /\ all_silenced => returned' = None]_vars

\* C3, witness: a quiz was returned that is not silenced, while a quiz of a lower
\* level, of another concept, was passed over because it is silenced.
C3_Witness ==
    \E quiz \in returned : \E other_quiz \in quizzes :
        /\ ~is_silenced(get_retention(quiz))
        /\ is_silenced(get_retention(other_quiz))
        /\ ~in_recent_concepts(concept_of(other_quiz))
        /\ StrLess(str(concept_of(other_quiz).level), str(concept_of(quiz).level))

\* A quiz can be asked when it is not silenced and its base concept is not in
\* the recent concepts; it is held back when a quiz that can be asked belongs to
\* one of its roots or is listed in its blocked_by.
can_be_asked(quiz) ==
    ~is_silenced(get_retention(quiz)) /\ ~in_recent_concepts(concept_of(quiz))

held_back(quiz) ==
    \/ \E root \in roots_of(quiz) : \E other_quiz \in quizzes_of(root) \ {quiz} :
          can_be_asked(other_quiz)
    \/ \E other_quiz \in quiz.blocked_by : other_quiz \in quizzes /\ can_be_asked(other_quiz)

one_quiz_or_none(value) == value \subseteq quizzes /\ Cardinality(value) <= 1

\* C4, as claimed: next_quiz returns one quiz of the universe or None, and None
\* only when no quiz of the universe is left unsilenced.
C4_NoneOnlyWhenAllSilenced ==
    [][next_quiz =>
        /\ one_quiz_or_none(returned')
        /\ returned' = None => all_silenced]_vars

\* C4, amended: next_quiz returns one quiz of the universe or None, and None
\* only when every quiz of the universe is silenced, or has its base concept in
\* the recent concepts, or is held back by a quiz that can be asked (of one of
\* its roots, or listed in its blocked_by).
C4_NoneOnlyWhenNothingCanBeAsked ==
    [][next_quiz =>
        /\ one_quiz_or_none(returned')
        /\ returned' = None => \A quiz \in quizzes : ~can_be_asked(quiz) \/ held_back(quiz)]_vars

\* C4, witness: next_quiz has returned quizzes and then None, although no quiz
\* was ever silenced: every quiz has its base concept in the recent concepts.
C4_Witness ==
    /\ returned = None
    /\ recent_concepts # <<>>
    /\ DOMAIN progress_dict = {}
    /\ \A quiz \in quizzes : in_recent_concepts(concept_of(quiz))

concept_in_progress(quiz) ==
    \E other_quiz \in quizzes :
        /\ base_concepts[other_quiz.concept] = base_concepts[quiz.concept]
        /\ in_progress(other_quiz)

\* C5: next_quiz returns a quiz without retention entry only if no quiz with
\* one can be asked and is not held back, and a quiz of a base concept without
\* any retention entry only if no quiz of a base concept with one can be asked
\* and is not held back.
C5_TierOrder ==
    [][next_quiz =>
        \A quiz \in returned' :
            /\ ~in_progress(quiz) =>
                  ~\E other_quiz \in quizzes :
                      in_progress(other_quiz) /\ can_be_asked(other_quiz) /\ ~held_back(other_quiz)
            /\ ~concept_in_progress(quiz) =>
                  ~\E other_quiz \in quizzes :
                      /\ concept_in_progress(other_quiz)
                      /\ can_be_asked(other_quiz) /\ ~held_back(other_quiz)]_vars

\* C5, witness: the quiz returned has a retention entry, and a quiz of a lower
\* level, without retention entry, of a concept without one, was passed over.
C5_Witness ==
    \E quiz \in returned : \E other_quiz \in quizzes :
        /\ in_progress(quiz) /\ ~is_silenced(get_retention(quiz))
        /\ ~concept_in_progress(other_quiz)
        /\ can_be_asked(other_quiz) /\ ~held_back(other_quiz)
        /\ StrLess(str(concept_of(other_quiz).level), str(concept_of(quiz).level))

\* C6: the quiz next_quiz returns has the lowest language level of the unblocked
\* quizzes of the first list of potential quizzes that has unblocked quizzes.
C6_LowestLanguageLevel ==
    [][next_quiz =>
        \A quiz \in returned' :
            /\ quiz \in first_unblocked_quizzes
            /\ \A other_quiz \in first_unblocked_quizzes :
                  LevelRank(concept_of(quiz).level) <= LevelRank(concept_of(other_quiz).level)]_vars

\* C6, witness: a quiz was returned, and a quiz of a higher level that can be
\* asked, is not held back and has as much retention history was not.
C6_Witness ==
    \E quiz \in returned : \E other_quiz \in quizzes \ {quiz} :
        /\ DOMAIN progress_dict = {}
        /\ recent_concepts = <<base_concepts[quiz.concept]>>
        /\ can_be_asked(other_quiz) /\ ~held_back(other_quiz)
        /\ LevelRank(concept_of(quiz).level) < LevelRank(concept_of(other_quiz).level)

\* C7: next_quiz is deterministic: in every state there is one value that it
\* can return, also when unblocked quizzes tie on the language level.
C7_Deterministic == Cardinality(next_quiz_returns) = 1

(***************************************************************************)
(* Properties of the retention table.                                      *)
(***************************************************************************)
not_shortened(old, new) ==
    /\ new.count >= old.count
    /\ old.silence_until # None => new.silence_until # None
    /\ \A before \in old.silence_until : \A after \in new.silence_until : after >= before

\* C8: in every step other than a reset_retention of the quiz, and so in every
\* increase_retention of it, the count of a quiz does not decrease and its
\* silence_until is neither cleared nor moved to an earlier time.
C8_RetentionMonotonicity ==
    [][\A quiz \in quizzes :
        /\ increase_retention(quiz) => not_shortened(get_retention(quiz), get_retention(quiz)')
        /\ reset_retention(quiz) \/ not_shortened(get_retention(quiz), get_retention(quiz)')]_vars

\* C8, witness: a quiz was increased twice, the second time after the clock had
\* moved on: its count is 2 and it is silenced for the duration of count 2 from
\* now, later than it was silenced for before.
C8_Witness ==
    \E quiz \in quizzes :
        /\ now >= 1
        /\ get_retention(quiz).count = 2
        /\ get_retention(quiz).silence_until = Some(now + SilenceDuration(2))

\* C9: one reset_retention of a quiz sets its count to 0 and clears its
\* silence_until, so that the quiz is not silenced after the call.
C9_Reset ==
    [][\A quiz \in quizzes :
        reset_retention(quiz) =>
            /\ get_retention(quiz)'.count = 0
            /\ get_retention(quiz)'.silence_until = None
            /\ ~is_silenced(get_retention(quiz))']_vars

\* C9, witness: a quiz was reset that was silenced with a count above 0: the
\* quiz returned last is blocked by it, so it was silenced at that call (both
\* belong to one base concept), and its entry now has count 0 and no silence.
C9_Witness ==
    \E quiz \in returned : \E other_quiz \in quiz.blocked_by :
        /\ in_progress(other_quiz)
        /\ get_retention(other_quiz) = [count |-> 0, silence_until |-> None]

C11_GetRetentionTotal ==
    \A quiz \in quizzes :
        /\ key(quiz) \notin DOMAIN progress_dict =>
              /\ get_retention(quiz) = [count |-> 0, silence_until |-> None]
              /\ ~is_silenced(get_retention(quiz))
        /\ key(quiz) \in DOMAIN progress_dict =>
              get_retention(quiz) = progress_dict[key(quiz)]

\* C11, witness: next_quiz, which asks for the retention of every quiz, has
\* returned a quiz without entry while another quiz has an entry that silences
\* it.
C11_Witness ==
    \E quiz \in returned : \E other_quiz \in quizzes :
        /\ key(quiz) \notin DOMAIN progress_dict
        /\ key(other_quiz) \in DOMAIN progress_dict
        /\ get_retention(other_quiz).count > 0
        /\ is_silenced(get_retention(other_quiz))

\* C12: increase_retention and reset_retention of a quiz without retention
\* entry create the entry: after the call the quiz is in progress, with count 1
\* after increase_retention and with count 0 and no silencing after
\* reset_retention, and the entries of the other keys are as before.
C12_LazyEntry ==
    [][\A quiz \in quizzes :
        LET others_kept ==
                /\ DOMAIN progress_dict' = DOMAIN progress_dict \union {key(quiz)}
                /\ \A k \in DOMAIN progress_dict : progress_dict'[k] = progress_dict[k]
        IN  /\ (increase_retention(quiz) /\ ~in_progress(quiz)) =>
                  /\ in_progress(quiz)'
                  /\ get_retention(quiz)'.count = 1
                  /\ others_kept
            /\ (reset_retention(quiz) /\ ~in_progress(quiz)) =>
                  /\ in_progress(quiz)'
                  /\ get_retention(quiz)' = [count |-> 0, silence_until |-> None]
                  /\ ~is_silenced(get_retention(quiz))'
                  /\ others_kept]_vars

\* C12, witness: more entries than were loaded, so at least two were created
\* by a call: one has count 1 and is silenced, another has count 0 and no
\* silence_until.
C12_Witness ==
    /\ Cardinality(DOMAIN progress_dict) >= MaxPersisted + 2
    /\ \E quiz, other_quiz \in quizzes :
          /\ quiz # other_quiz
          /\ in_progress(quiz) /\ in_progress(other_quiz)
          /\ get_retention(quiz).count = 1 /\ is_silenced(get_retention(quiz))
          /\ get_retention(other_quiz) = [count |-> 0, silence_until |-> None]

(***************************************************************************)
(* Properties of the recent concepts.                                      *)
(***************************************************************************)
\* The last n items of a sequence.
last(seq, n) == SubSeq(seq, Len(seq) - n + 1, Len(seq))

min(a, b) == IF a <= b THEN a ELSE b

\* C13: the recent concepts start empty and every next_quiz call that returns a
\* quiz leaves the last min(Len + 1, skip_concepts) items of the recent concepts
\* followed by the base concept of the quiz, in order, so that after k quizzes
\* the window holds the base concepts of the last min(k, skip_concepts) of them;
\* it never holds more than skip_concepts items or one concept twice, a full
\* window loses its oldest item, which can then be asked again, and a call that
\* returns no quiz leaves the window as it is.
C13_RecentWindow ==
    [][next_quiz =>
        /\ returned' = None => recent_concepts' = recent_concepts
        /\ \A quiz \in returned' :
              LET asked == Append(recent_concepts, base_concepts[quiz.concept])
              IN  /\ recent_concepts' = last(asked, min(Len(asked), skip_concepts))
                  /\ (skip_concepts >= 1 /\ Len(recent_concepts) = skip_concepts) =>
                        Head(recent_concepts) \notin Range(recent_concepts')
        /\ Len(recent_concepts') <= skip_concepts
        /\ \A i, j \in DOMAIN recent_concepts' :
              i # j => recent_concepts'[i] # recent_concepts'[j]]_vars

\* C13, witness: with a window of two and no retention entry, the quizzes of
\* board, blackboard and sentence were returned in this order, board left the
\* window at the third quiz and was returned again as the fourth.
C13_Witness ==
    /\ skip_concepts = 2
    /\ DOMAIN progress_dict = {}
    /\ returned = Some(boards_read)
    /\ recent_concepts = <<base_concepts["sentence"], base_concepts["board"]>>

(***************************************************************************)
(* Properties of the practice loop.                                        *)
(***************************************************************************)
\* C14: a practice session in which every quiz that next_quiz returns is
\* answered correctly and no silence_until is reached comes, after finitely
\* many next_quiz calls, to a call that returns no quiz, and is then done.
C14_SessionTerminates == <>(practice = "done" /\ returned = None)

\* C14, witness: the session is done after quizzes were asked and answered:
\* the table has entries that the session created, all of them silenced.
C14_Witness ==
    /\ practice = "done"
    /\ returned = None
    /\ recent_concepts # <<>>
    /\ Cardinality(DOMAIN progress_dict) >= MaxPersisted + 2
    /\ \A quiz \in quizzes :
          in_progress(quiz) => get_retention(quiz).count >= 1 /\ is_silenced(get_retention(quiz))

(***************************************************************************)
(* Properties of the concept graph.  query is the latest call: the concept *)
(* it was made on (self), its arguments and what it returned or raised;    *)
(* the registry is the one the call was made on.                           *)
(***************************************************************************)
asked(method) == query.method = method
returns == query.result.raises = ""
concept_ids(concepts) == {concepts[i].concept_id : i \in DOMAIN concepts}

\* C15: roots(language), and compounds(language) which calls it, return for
\* every concept of every concept graph, also when a concept is among its own
\* roots, directly or through other concepts.
C15_RootsTerminate == (asked("roots") \/ asked("compounds")) => returns

\* C16: get_related_concepts returns, for every relation and every concept
\* graph, cycles and self-references included: it raises nothing, returns
\* registered concepts, and its calls are nested no deeper than the number of
\* registered concepts plus one (a concept on the call path is not expanded
\* again).
C16_RelatedConceptsTerminate ==
    asked("get_related_concepts") =>
        /\ returns
        /\ Range(query.result.value) \subseteq Range(Concept_get_all_concepts(registry))
        /\ Concept_get_related_concepts(registry, registry[query.self], query.args[1], <<>>,
                                        recursionlimit - Cardinality(DOMAIN registry)).raises = ""

\* C16, witness: the hyponyms were asked of a concept that is its own hypernym
\* through another concept, and the call returned concepts.
C16_Witness ==
    /\ asked("get_related_concepts") /\ query.args = <<"hyponym">>
    /\ returns /\ query.result.value # <<>>
    /\ query.self \notin Range(registry[query.self]._related_concepts["hypernym"])
    /\ registry[query.self] \in
          Range(Concept_get_related_concepts(registry, registry[query.self], "hypernym", <<>>, 1).value)

inverse(relation) ==
    CASE relation = "hypernym" -> "hyponym" [] relation = "hyponym" -> "hypernym"
      [] relation = "involves" -> "involved_by" [] relation = "involved_by" -> "involves"
      [] relation = "holonym" -> "meronym" [] relation = "meronym" -> "holonym"

\* C17: for all registered concepts A and B (A = B and cycles included) and
\* every relation K that has an inverse, B is in A.get_related_concepts(K) if and
\* only if A is in B.get_related_concepts(inverse of K).
C17_RelationInversion ==
    (asked("get_related_concepts") /\ query.args[1] \in DOMAIN [r \in
        {"hypernym", "hyponym", "involves", "involved_by", "holonym", "meronym"} |-> TRUE]) =>
        \A concept_id \in DOMAIN registry :
            registry[concept_id] \in Range(query.result.value)
            <=> registry[query.self] \in
                    Range(Concept_get_related_concepts(registry, registry[concept_id],
                                                       inverse(query.args[1]), <<>>, 1).value)

\* The ids of the registered concepts that a concept declares for a relation,
\* and of those reached from it over one or more declared links.
declared(registry_, concept_id, relation) ==
    Range(registry_[concept_id]._related_concepts[relation]) \intersect DOMAIN registry_

RECURSIVE closure(_, _, _)
closure(registry_, relation, found) ==
    LET further == found \union UNION {declared(registry_, concept_id, relation) :
                                          concept_id \in found}
    IN  IF further = found THEN found ELSE closure(registry_, relation, further)

reachable(registry_, concept_id, relation) ==
    closure(registry_, relation, declared(registry_, concept_id, relation))

\* C18: for a recursive relation (hypernym, holonym, involves) the concepts
\* that get_related_concepts returns are those reachable over one or more
\* declared links of the relation; for antonym, answer and example they are
\* the declared concepts and no others.
C18_TransitiveClosure ==
    asked("get_related_concepts") =>
        /\ query.args[1] \in RecursiveConceptRelation =>
              /\ returns
              /\ concept_ids(query.result.value) = reachable(registry, query.self, query.args[1])
        /\ query.args[1] \in NonInvertedConceptRelation \ RecursiveConceptRelation =>
              /\ returns
              /\ concept_ids(query.result.value) = declared(registry, query.self, query.args[1])

\* C18, witness: the hypernyms asked of a concept include a concept that is
\* declared on one of its hypernyms and not on the concept itself.
C18_Witness ==
    /\ asked("get_related_concepts") /\ query.args = <<"hypernym">> /\ returns
    /\ \E concept_id \in concept_ids(query.result.value) :
          /\ concept_id # query.self
          /\ concept_id \notin declared(registry, query.self, "hypernym")
          /\ \E between \in declared(registry, query.self, "hypernym") :
                concept_id \in declared(registry, between, "hypernym")

\* The ids that a concept refers to.
referred_ids(concept) ==
    concept._parent \union Range(concept._constituents)
    \union UNION {Range(concept._related_concepts[relation]) :
                     relation \in DOMAIN concept._related_concepts}
    \union (IF concept._roots.is_dict
            THEN UNION {Range(concept._roots.dict[language]) :
                           language \in DOMAIN concept._roots.dict}
            ELSE Range(concept._roots.tuple))

\* C19: making a concept that refers to an id that is not registered fails,
\* and no call of parent, labels, is_composite, roots, compounds or
\* get_related_concepts is where an id is found not to be registered.
C19_UnregisteredIdRejectedAtLoad ==
    /\ asked("Concept") =>
          (referred_ids(registry[query.self]) \subseteq DOMAIN registry \/ ~returns)
    /\ ~asked("Concept") => query.result.raises # "IndexError"

\* A concept has nothing of its own for a language, and neither have its
\* ancestors, which are all registered.
bare(concept, language) ==
    \A i \in DOMAIN (concept._labels \o concept._meanings) :
        (concept._labels \o concept._meanings)[i].language # language

RECURSIVE bare_ancestors(_, _, _)
bare_ancestors(registry_, concept, language) ==
    \A parent_id \in concept._parent :
        /\ parent_id \in DOMAIN registry_
        /\ bare(registry_[parent_id], language)
        /\ bare_ancestors(registry_, registry_[parent_id], language)

no_own_labels(concept, language) ==
    \A i \in DOMAIN concept._labels : concept._labels[i].language # language

constituents_labels(registry_, concept, language) ==
    Concepts_labels(registry_, Concept_constituents(registry_, concept), language, 1)

own(concept, kind, language) ==
    SelectSeq(concept[kind], LAMBDA label : label.language = language)

RECURSIVE nearest_ancestor(_, _, _, _)
nearest_ancestor(registry_, concept, kind, language) ==
    IF concept._parent \subseteq DOMAIN registry_ /\ concept._parent # None
    THEN LET parent_concept == registry_[CHOOSE parent_id \in concept._parent : TRUE]
         IN  IF own(parent_concept, kind, language) # <<>>
             THEN own(parent_concept, kind, language)
             ELSE nearest_ancestor(registry_, parent_concept, kind, language)
    ELSE <<>>

RECURSIVE by_precedence(_, _, _, _)
by_precedence(registry_, concept, kind, language) ==
    IF own(concept, kind, language) # <<>> THEN own(concept, kind, language)
    ELSE IF nearest_ancestor(registry_, concept, kind, language) # <<>>
    THEN nearest_ancestor(registry_, concept, kind, language)
    ELSE LET registered == SelectSeq(concept._constituents, LAMBDA id : id \in DOMAIN registry_)
         IN  Chain([i \in DOMAIN registered |->
                        by_precedence(registry_, registry_[registered[i]], kind, language)])

\* C21: labels(L) returns the concept's own labels for L when it has any,
\* otherwise the own labels for L of the nearest ancestor that has any,
\* otherwise the labels(L) of its constituents, one after the other; and
\* meanings(L) does the same with the meanings.
C21_LabelPrecedence ==
    /\ asked("labels") =>
          query.result = Return(by_precedence(registry, registry[query.self], "_labels",
                                              query.args[1]))
    /\ asked("meanings") =>
          query.result = Return(by_precedence(registry, registry[query.self], "_meanings",
                                              query.args[1]))

\* The ids of the registered roots that a concept declares for a language,
\* and of the concepts reached over one or more such declarations.
declared_roots(registry_, concept_id, language) ==
    LET roots_ == registry_[concept_id]._roots
    IN  (IF roots_.is_dict
         THEN IF language \in DOMAIN roots_.dict THEN Range(roots_.dict[language]) ELSE {}
         ELSE Range(roots_.tuple)) \intersect DOMAIN registry_

RECURSIVE roots_closure(_, _, _)
roots_closure(registry_, language, found) ==
    LET further == found \union UNION {declared_roots(registry_, concept_id, language) :
                                          concept_id \in found}
    IN  IF further = found THEN found ELSE roots_closure(registry_, language, further)

reachable_roots(registry_, concept_id, language) ==
    roots_closure(registry_, language, declared_roots(registry_, concept_id, language))

\* C22: for all registered concepts A and B and every language L, B is in
\* A.compounds(L) if and only if A is among the roots of B for L, the roots
\* of its roots included.
C22_CompoundsAreConceptsWithRoot ==
    asked("compounds") =>
        /\ returns
        /\ concept_ids(query.result.value) =
              {concept_id \in DOMAIN registry :
                  query.self \in reachable_roots(registry, concept_id, query.args[1])}

\* The root of the parent chain of a concept; a parent that is not
\* registered ends the chain.
RECURSIVE root_of_parent_chain(_, _)
root_of_parent_chain(registry_, concept) ==
    IF concept._parent \subseteq DOMAIN registry_ /\ concept._parent # None
    THEN root_of_parent_chain(registry_, registry_[CHOOSE parent_id \in concept._parent : TRUE])
    ELSE concept

\* C23: for a concept and other concepts that share its base concept and have
\* as many grammatical categories, grammatical_differences returns the
\* categories of the concept at the positions where a category of another
\* concept differs, in the order of the positions.
C23_GrammaticalDifferencesInOrder ==
    LET self == registry[query.self]
        categories == Concept_grammatical_categories(self)
        differs(i) ==
            \E c \in DOMAIN query.args : Concept_grammatical_categories(query.args[c])[i] # categories[i]
        positions == SelectSeq([i \in DOMAIN categories |-> i], differs)
    IN  (/\ asked("grammatical_differences")
         /\ \A c \in DOMAIN query.args :
               /\ root_of_parent_chain(registry, query.args[c]) = root_of_parent_chain(registry, self)
               /\ Len(Concept_grammatical_categories(query.args[c])) = Len(categories)) =>
            query.result = Return([p \in DOMAIN positions |-> categories[positions[p]]])

\* C30: grammatical_differences returns, and raises nothing, for a concept and
\* other concepts that share its base concept, whatever the number of
\* grammatical categories of the other concepts.
C30_GrammaticalDifferencesReturn ==
    (/\ asked("grammatical_differences")
     /\ \A c \in DOMAIN query.args :
           root_of_parent_chain(registry, query.args[c])
               = root_of_parent_chain(registry, registry[query.self])) => returns

\* C24: base_concept is the root of the parent chain of the concept (the
\* concept itself when it has no parent), it is the base concept of the
\* parent too and its own base concept; same_base_concept(c1..cn) is true if
\* and only if that root is the root of the parent chain of every ci.
C24_BaseConceptIsRootOfParentChain ==
    LET self == registry[query.self]
    IN  /\ asked("base_concept") =>
              /\ query.result = Return(root_of_parent_chain(registry, self))
              /\ \A parent_id \in self._parent \intersect DOMAIN registry :
                    Concept_base_concept(registry, registry[parent_id], 1) = query.result
              /\ Concept_base_concept(registry, query.result.value, 1) = query.result
        /\ asked("same_base_concept") =>
              query.result =
                  Return(\A c \in DOMAIN query.args :
                            root_of_parent_chain(registry, query.args[c])
                                = root_of_parent_chain(registry, self))

\* C29: for a recursive relation, get_related_concepts returns every related
\* concept once, also a concept that is reached over several paths.
C29_RelatedConceptsOnce ==
    (asked("get_related_concepts") /\ query.args[1] \in RecursiveConceptRelation) =>
        /\ returns
        /\ \A i, j \in DOMAIN query.result.value :
              query.result.value[i] = query.result.value[j] => i = j

\* C25: two labels are equal if and only if they have the same language and
\* the same text before the first note separator; a label does not equal a
\* str that is not a label; and label != other is the negation of
\* label == other.
C25_LabelEquality ==
    LET self == query.args[1]
        other == query.args[2]
        same == /\ isinstance_Label(other)
                /\ self.language = other.language
                /\ Head(self.value) = Head(other.value)
    IN  /\ asked("Label.__eq__") => query.result = Return(same)
        /\ asked("Label.__ne__") => query.result = Return(~same)

\* C25, witness: Label("en", "hoi;note1") == Label("en", "hoi;note2") was
\* asked and is true.
C25_Witness ==
    /\ asked("Label.__eq__")
    /\ query.args = <<Label("en", <<"hoi", "note1">>), Label("en", <<"hoi", "note2">>)>>
    /\ query.result = Return(TRUE)

(***************************************************************************)
(* Blocking, as computed for one next_quiz call.                           *)
(***************************************************************************)
\* A quiz blocks another quiz when it is a different quiz of the base concept
\* of one of the other's roots, or is listed in the other's blocked_by.
blocks(other_quiz, quiz) ==
    \/ \E root \in roots_of(quiz) : other_quiz \in quizzes_of(root) \ {quiz}
    \/ other_quiz \in quiz.blocked_by

\* C26: next_quiz returns no quiz while a quiz that can be asked in that call
\* (not silenced, its base concept not in the recent concepts) blocks it: a
\* different quiz of the base concept of one of its roots, for its target
\* language, or a quiz listed in its blocked_by.
C26_NotBlockedInCall ==
    [][next_quiz =>
        \A quiz \in returned' : \A other_quiz \in quizzes :
            can_be_asked(other_quiz) => ~blocks(other_quiz, quiz)]_vars

\* C26, witness: a quiz with a quiz in its blocked_by was returned, and the
\* quiz in its blocked_by is silenced.
C26_Witness ==
    \E quiz \in returned :
        /\ quiz.blocked_by # {}
        /\ \A other_quiz \in quiz.blocked_by :
              other_quiz \in quizzes /\ is_silenced(get_retention(other_quiz))

\* The quizzes that can be asked block each other in a circle when some of
\* them are each blocked by one of them.
blocking_cycle ==
    \E circle \in SUBSET {quiz \in quizzes : can_be_asked(quiz)} :
        /\ circle # {}
        /\ \A quiz \in circle : \E other_quiz \in circle : blocks(other_quiz, quiz)

\* C27: when a quiz can be asked and the quizzes that can be asked do not
\* block each other in a circle, next_quiz returns a quiz.
C27_BlockingDoesNotStarve ==
    [][next_quiz =>
        (((\E quiz \in quizzes : can_be_asked(quiz)) /\ ~blocking_cycle) =>
            returned' # None)]_vars

\* C27, witness: a quiz was returned while another quiz that can be asked is
\* held back.
C27_Witness ==
    /\ skip_concepts = 0
    /\ returned # None
    /\ \E quiz \in quizzes : can_be_asked(quiz) /\ held_back(quiz)

(***************************************************************************)
(* The frame of the retention table.                                       *)
(***************************************************************************)
\* C28: the retention table is changed by increase_retention and
\* reset_retention only, which change or create no entry but the one under the
\* key of their quiz; next_quiz, which reads the table with get_retention, and
\* the passing of time leave it as it is, and no step removes an entry.
C28_RetentionTableFrame ==
    [][/\ (next_quiz \/ Tick) => progress_dict' = progress_dict
       /\ DOMAIN progress_dict \subseteq DOMAIN progress_dict'
       /\ \A quiz \in quizzes :
             (increase_retention(quiz) \/ reset_retention(quiz)) =>
                 /\ DOMAIN progress_dict' = DOMAIN progress_dict \union {key(quiz)}
                 /\ \A k \in DOMAIN progress_dict \ {key(quiz)} :
                       progress_dict'[k] = progress_dict[k]
       /\ progress_dict' # progress_dict =>
             \E quiz \in quizzes :
                 increase_retention(quiz) \/ reset_retention(quiz)]_vars

\* C28, witness: after a quiz was returned the table has an entry that a call
\* created, next to an entry with count 2 and an entry with count 0.
C28_Witness ==
    /\ returned # None
    /\ Cardinality(DOMAIN progress_dict) >= MaxPersisted + 1
    /\ \E k, other_key \in DOMAIN progress_dict :
          /\ progress_dict[k].count = 2
          /\ progress_dict[other_key] = [count |-> 0, silence_until |-> None]

====
